---- MODULE Spec2Model ----
(***************************************************************************)
(* Energy accumulation and monthly ledger of goodwe_scripts/main.py.       *)
(*                                                                         *)
(* Representation.                                                         *)
(*  - Energies are integers in micro-joules.  The wrap modulus and the     *)
(*    µJ-per-kWh factor are scaled down (2**32 -> RAPL_MAX_UJ,             *)
(*    3.6e12 -> UJ_PER_KWH) so that a month total fits the checker's       *)
(*    integers; likewise 0.01 W (10^4 µJ/s -> CENTIWATT_UJ_S), the deque   *)
(*    capacity (43200 -> WindowCap) and the save interval (30 -> 2 sample  *)
(*    intervals).                                                          *)
(*  - A float is a rational [num, den]; round(x, n) is the nearest         *)
(*    multiple of 10^-n, and a persisted float is kept as that integer     *)
(*    count.  A float tie (x exactly half-way) may round either way.       *)
(*  - Wall-clock stamps are kept as ages (now - stamp).                    *)
(*  - A month key "YYYY-MM" is the integer YYYYMM; a dict is a function    *)
(*    whose DOMAIN is the set of keys present.                             *)
(***************************************************************************)
EXTENDS Integers, Sequences, FiniteSets, TLC

VARIABLES
    pc,              \* position of the process in main()
    ret,             \* where save_monthly_data returns to
    runs,            \* number of times the program has been started
    clock,           \* calendar month of the wall clock, months after the epoch
    worker,          \* the xmrig child process
    disk,            \* monthly_stats.json
    monthly_data,    \* the in-memory ledger dict
    current_month,   \* main(): current_month
    new_month,       \* main(): new_month
    last_energy_uj,  \* accumulator.last_energy_uj
    read_age,        \* now - accumulator.last_read_time
    save_age,        \* now - last_save_time
    month_total_uj,  \* accumulator.month_total_uj
    samples_24h,     \* accumulator.samples_24h
    current_watts,   \* main(): current_watts
    hist             \* history variable: what the run has done, read by no action

vars == <<pc, ret, runs, clock, worker, disk, monthly_data, current_month, new_month,
          last_energy_uj, read_age, save_age, month_total_uj, samples_24h,
          current_watts, hist>>

----------------------------------------------------------------------------
(* Bounds of the model *)

MaxClock == 1
MaxRuns == 2
MaxTotalUj == 6
WindowCap == 2

(* Program constants *)

RAPL_MAX_UJ == 4
UJ_PER_KWH == 30000
CENTIWATT_UJ_S == 3
SAMPLE_INTERVAL == 2
SAVE_INTERVAL == 4

(* Inputs *)

Advances == {0, 2, RAPL_MAX_UJ + 2}
InitialReadings == {RAPL_MAX_UJ - 1}
TimeSteps == {0 - SAMPLE_INTERVAL, SAMPLE_INTERVAL, SAVE_INTERVAL}
SolarRaw == {14}

----------------------------------------------------------------------------
(* Dicts *)

EmptyDict == [x \in {} |-> 0]

Put(d, k, v) == [x \in (DOMAIN d) \cup {k} |-> IF x = k THEN v ELSE d[x]]

SetField(md, key, f, v) == Put(md, key, Put(md[key], f, v))

----------------------------------------------------------------------------
(* Floats *)

Rat(n, d) == [num |-> n, den |-> d]

\* round(q, digits) as the count of 10^-digits units, scale = 10^digits
RoundTo(q, scale, up) ==
    LET n == q.num * scale
        k == n \div q.den
        r == n % q.den
    IN  IF 2 * r > q.den \/ (2 * r = q.den /\ up) THEN k + 1 ELSE k

Round4(q, up) == RoundTo(q, 10000, up)

Round3(q, up) == RoundTo(q, 1000, up)

\* round(watts, 2): 0.01 W is CENTIWATT_UJ_S micro-joules per second
Round2(q, up) == RoundTo(Rat(q.num, q.den * CENTIWATT_UJ_S), 1, up)

----------------------------------------------------------------------------
(* month_key *)

\* the calendar month that clock = 0 stands for
Epoch == [year |-> 2024, month |-> 1]

\* f"{dt.year}-{dt.month:02d}" of the month dt months after the epoch, as YYYYMM
month_key(dt) ==
    LET m == Epoch.month - 1 + dt
    IN  (Epoch.year + m \div 12) * 100 + (m % 12) + 1

----------------------------------------------------------------------------
(* EnergyAccumulator *)

Delta_NoWrap(current_energy_uj, last) == current_energy_uj - last

Delta(current_energy_uj, last) == (current_energy_uj - last) % RAPL_MAX_UJ

Accumulate_TimedOnly(total, delta_energy_uj, delta_time_s) ==
    IF delta_time_s > 0 THEN total + delta_energy_uj ELSE total

Accumulate(total, delta_energy_uj, delta_time_s) == total + delta_energy_uj

Append24h_Unbounded(samples, delta_energy_uj) == Append(samples, delta_energy_uj)

\* deque(maxlen=...).append
Append24h(samples, delta_energy_uj) ==
    IF Len(samples) >= WindowCap
    THEN Append(Tail(samples), delta_energy_uj)
    ELSE Append(samples, delta_energy_uj)

PowerWatts(delta_energy_uj, delta_time_s) ==
    IF delta_time_s > 0 THEN Rat(delta_energy_uj, delta_time_s) ELSE Rat(0, 1)

get_month_kwh(total_uj) == Rat(total_uj, UJ_PER_KWH)

RECURSIVE SumSeq(_)
SumSeq(s) == IF s = <<>> THEN 0 ELSE Head(s) + SumSeq(Tail(s))

get_avg_power_24h(samples) ==
    IF samples = <<>> THEN Rat(0, 1)
    ELSE LET total_time_s == Len(samples) * SAMPLE_INTERVAL
         IN  IF total_time_s > 0 THEN Rat(SumSeq(samples), total_time_s) ELSE Rat(0, 1)

\* int(existing_kwh * 1000 * 3600 * 1_000_000): the float product of a 4-decimal
\* value is the exact product or falls just below it, and int() truncates
ResumeUj_WhForKwh(existing_kwh4, below) ==
    (existing_kwh4 * (UJ_PER_KWH \div 1000)) \div 10000

ResumeUj(existing_kwh4, below) ==
    LET exact == (existing_kwh4 * UJ_PER_KWH) \div 10000
    IN  IF below /\ exact > 0 THEN exact - 1 ELSE exact

----------------------------------------------------------------------------
(* Ledger file *)

FileAbsent == [state |-> "absent", data |-> EmptyDict]

FileTruncated == [state |-> "truncated", data |-> EmptyDict]

FileOf(data) == [state |-> "complete", data |-> data]

\* load_monthly_data on a file json.load can parse
load_monthly_data(file) == IF file.state = "complete" THEN file.data ELSE EmptyDict

LoadRaises_Never(file) == FALSE

\* json.load raises on an empty or cut-off file
LoadRaises(file) == file.state = "truncated"

\* save_monthly_data: open(MONTHLY_FILE, "w") empties the file, json.dump then writes it
SaveOpen(file) == FileTruncated

SaveDump(file, data) == FileOf(data)

----------------------------------------------------------------------------
(* SEMSPortal *)

GEN == "Generation (kWh)"

NullY == 0 - 1

ResponseKinds == {"neterr", "nolines", "emptyxy", "data_null", "bad_y"}

Responses ==
    {[kind |-> k, y |-> NullY] : k \in ResponseKinds}
        \cup {[kind |-> "series", y |-> v] : v \in SolarRaw}

\* the chart's monthly points up to and including today's month
Series(today, y) == [i \in 1..(today + 1) |-> [x |-> month_key(i - 1), y |-> y]]

\* the value get_monthly_generation returns: {} after a RequestException,
\* otherwise r.json().get("data", {}), which is None when the body carries "data": null
get_monthly_generation(resp, today) ==
    CASE resp.kind = "neterr" -> [null |-> FALSE, lines |-> <<>>]
      [] resp.kind = "nolines" -> [null |-> FALSE, lines |-> <<>>]
      [] resp.kind = "data_null" -> [null |-> TRUE, lines |-> <<>>]
      [] resp.kind = "emptyxy" -> [null |-> FALSE, lines |-> <<[label |-> GEN, xy |-> <<>>]>>]
      [] OTHER -> [null |-> FALSE,
                   lines |-> <<[label |-> GEN, xy |-> Series(today, resp.y)]>>]

IsGenWithPoints(line) == line.label = GEN /\ line.xy # <<>>

\* fetch_solar_this_month: exc when data.get or float() raises, some when a value is returned
fetch_solar_this_month(data) ==
    IF data.null THEN [exc |-> TRUE, some |-> FALSE, y |-> NullY]
    ELSE LET gen == SelectSeq(data.lines, IsGenWithPoints)
         IN  IF gen = <<>> THEN [exc |-> FALSE, some |-> FALSE, y |-> NullY]
             ELSE LET last_entry == gen[1].xy[Len(gen[1].xy)]
                  IN  IF last_entry.y = NullY
                      THEN [exc |-> TRUE, some |-> FALSE, y |-> NullY]
                      ELSE [exc |-> FALSE, some |-> TRUE, y |-> last_entry.y]

RECURSIVE BackfillEntries(_, _, _)
BackfillEntries(md, entries, up) ==
    IF entries = <<>> THEN md
    ELSE LET entry == Head(entries)
             month == entry.x
             md1 == IF month \in DOMAIN md THEN md ELSE Put(md, month, EmptyDict)
         IN  BackfillEntries(SetField(md1, month, "solar", Round3(Rat(entry.y, 10000), up)),
                             Tail(entries), up)

\* ensure_previous_11_months_saved: exc when it raises, save when it reaches save_monthly_data
ensure_previous_11_months_saved(data, loaded, up) ==
    IF data.null THEN [exc |-> TRUE, save |-> FALSE, md |-> loaded]
    ELSE LET gen == SelectSeq(data.lines, LAMBDA l : l.label = GEN)
         IN  IF gen = <<>> THEN [exc |-> FALSE, save |-> TRUE, md |-> loaded]
             ELSE LET xy == gen[1].xy
                  IN  IF xy = <<>> THEN [exc |-> FALSE, save |-> FALSE, md |-> loaded]
                      ELSE LET prev == SubSeq(xy, 1, Len(xy) - 1)
                           IN  IF \E i \in 1..Len(prev) : prev[i].y = NullY
                               THEN [exc |-> TRUE, save |-> FALSE, md |-> loaded]
                               ELSE [exc |-> FALSE, save |-> TRUE,
                                     md |-> BackfillEntries(loaded, prev, up)]

----------------------------------------------------------------------------
(* The process *)

NoSample == [taken_in |-> 0, added_to |-> 0, last |-> 0, current |-> 0,
             advance |-> 0, delta |-> 0, elapsed |-> 0]

\* seed:    month_total_uj as seeded at startup, 0 after a reset
\* deltas:  sum of the deltas sampled since startup or the last reset
\* sample:  the sample just taken (at "savecheck")
\* resumed: the persisted pc_kwh_used the seed was computed from, -1 when none
\* fetch:   the kind of response the save point just got (at "save_write")
\* exc:     where the exception that ended the process was raised
\* finalized: the months this run has finalized at a rollover
NoHist == [seed |-> 0, deltas |-> 0, sample |-> NoSample, resumed |-> 0 - 1,
           fetch |-> "none", exc |-> "none", finalized |-> {}]

acc == <<last_energy_uj, read_age, month_total_uj, samples_24h>>

Init ==
    /\ pc = "off"
    /\ ret = "none"
    /\ runs = 0
    /\ clock \in 0..MaxClock
    /\ worker = "none"
    /\ disk = FileAbsent
    /\ monthly_data = EmptyDict
    /\ current_month = 0
    /\ new_month = 0
    /\ last_energy_uj = 0
    /\ read_age = 0
    /\ save_age = 0
    /\ month_total_uj = 0
    /\ samples_24h = <<>>
    /\ current_watts = Rat(0, 1)
    /\ hist = NoHist

\* the memory of a process that does not run
NoMemory ==
    /\ ret' = "none"
    /\ worker' = "none"
    /\ monthly_data' = EmptyDict
    /\ current_month' = 0
    /\ new_month' = 0
    /\ last_energy_uj' = 0
    /\ read_age' = 0
    /\ save_age' = 0
    /\ month_total_uj' = 0
    /\ samples_24h' = <<>>
    /\ current_watts' = Rat(0, 1)

\* an exception no handler catches ends the process
Raise(where) ==
    /\ pc' = "crashed"
    /\ NoMemory
    /\ hist' = [NoHist EXCEPT !.exc = where]
    /\ UNCHANGED <<clock, disk>>

Stopped == pc \in {"off", "crashed", "killed", "done"}

\* the positions inside main()'s try block
InTry == pc \in {"sample", "savecheck", "rollover", "reset", "sleep"}
             \/ (pc = "save_write" /\ ret \in {"rollover", "reset"})

\* main() up to the save of ensure_previous_11_months_saved
Startup ==
    /\ Stopped
    /\ runs < MaxRuns
    /\ runs' = runs + 1
    /\ \E login_ok \in BOOLEAN, resp \in Responses, up \in BOOLEAN :
         LET data == get_monthly_generation(resp, clock)
             out == ensure_previous_11_months_saved(data, load_monthly_data(disk), up)
         IN  IF ~login_ok THEN Raise("sems_login")
             ELSE IF LoadRaises(disk) THEN Raise("load_monthly_data")
             ELSE IF out.exc THEN Raise("ensure_previous_11_months_saved")
             ELSE /\ worker' = "none"
                  /\ monthly_data' = out.md
                  /\ IF out.save
                     THEN /\ disk' = SaveOpen(disk)
                          /\ pc' = "save_write"
                          /\ ret' = "launch"
                     ELSE /\ disk' = disk
                          /\ pc' = "launch"
                          /\ ret' = "none"
                  /\ current_month' = 0
                  /\ new_month' = 0
                  /\ last_energy_uj' = 0
                  /\ read_age' = 0
                  /\ save_age' = 0
                  /\ month_total_uj' = 0
                  /\ samples_24h' = <<>>
                  /\ current_watts' = Rat(0, 1)
                  /\ hist' = NoHist
                  /\ UNCHANGED clock

\* save_monthly_data after open(): json.dump writes the dict and the file is closed
SaveWrite ==
    /\ pc = "save_write"
    /\ disk' = SaveDump(disk, monthly_data)
    /\ pc' = ret
    /\ ret' = "none"
    /\ save_age' = IF ret = "rollover" THEN 0 ELSE save_age
    /\ hist' = [hist EXCEPT !.fetch = "none"]
    /\ UNCHANGED <<runs, clock, worker, monthly_data, current_month, new_month,
                   last_energy_uj, read_age, month_total_uj, samples_24h, current_watts>>

\* main(): Popen, load, month_key(), EnergyAccumulator(), resume, last_save_time
Launch ==
    /\ pc = "launch"
    /\ \E read_ok \in BOOLEAN, reading \in InitialReadings, below \in BOOLEAN :
         IF LoadRaises(disk) THEN Raise("load_monthly_data") /\ UNCHANGED runs
         ELSE IF ~read_ok THEN Raise("read_int") /\ UNCHANGED runs
         ELSE LET md == load_monthly_data(disk)
                  cm == month_key(clock)
                  resume == cm \in DOMAIN md /\ "pc_kwh_used" \in DOMAIN md[cm]
                  seed == IF resume THEN ResumeUj(md[cm]["pc_kwh_used"], below) ELSE 0
              IN  /\ worker' = "running"
                  /\ monthly_data' = md
                  /\ current_month' = cm
                  /\ new_month' = cm
                  /\ last_energy_uj' = reading
                  /\ read_age' = 1  \* the first sample follows the constructor at once
                  /\ month_total_uj' = seed
                  /\ samples_24h' = <<>>
                  /\ save_age' = 0
                  /\ hist' = [hist EXCEPT !.seed = seed, !.deltas = 0,
                                          !.resumed = IF resume THEN md[cm]["pc_kwh_used"]
                                                      ELSE 0 - 1]
                  /\ pc' = "sample"
                  /\ UNCHANGED <<ret, runs, clock, disk, current_watts>>

\* accumulator.sample_energy()
Sample ==
    /\ pc = "sample"
    /\ \E read_ok \in BOOLEAN, advance \in Advances :
         IF ~read_ok THEN Raise("read_int") /\ UNCHANGED runs
         ELSE LET current_energy_uj == (last_energy_uj + advance) % RAPL_MAX_UJ
                  delta_energy_uj == Delta(current_energy_uj, last_energy_uj)
                  delta_time_s == read_age
              IN  /\ month_total_uj + delta_energy_uj <= MaxTotalUj
                  /\ last_energy_uj' = current_energy_uj
                  /\ read_age' = 0
                  /\ month_total_uj' = Accumulate(month_total_uj, delta_energy_uj, delta_time_s)
                  /\ samples_24h' = Append24h(samples_24h, delta_energy_uj)
                  /\ current_watts' = PowerWatts(delta_energy_uj, delta_time_s)
                  /\ hist' = [hist EXCEPT
                                !.deltas = @ + delta_energy_uj,
                                !.sample = [taken_in |-> month_key(clock),
                                            added_to |-> current_month,
                                            last |-> last_energy_uj,
                                            current |-> current_energy_uj,
                                            advance |-> advance,
                                            delta |-> delta_energy_uj,
                                            elapsed |-> delta_time_s]]
                  /\ pc' = "savecheck"
                  /\ UNCHANGED <<ret, runs, clock, worker, disk, monthly_data,
                                 current_month, new_month, save_age>>

\* the record the save point writes for the current month
SavePointRecord(md, cm, kwh4, avg2, watts2) ==
    LET md1 == IF cm \in DOMAIN md THEN md ELSE Put(md, cm, EmptyDict)
        md2 == SetField(md1, cm, "pc_kwh_used", kwh4)
        md3 == SetField(md2, cm, "current_avg_watts_24h", avg2)
    IN  SetField(md3, cm, "current_watts", watts2)

\* main(): the periodic save; current_watts is not read again before the next
\* sample assigns it
SavePoint ==
    /\ pc = "savecheck"
    /\ IF save_age >= SAVE_INTERVAL
       THEN \E resp \in Responses, up \in BOOLEAN :
              LET md == SavePointRecord(monthly_data, current_month,
                                        Round4(get_month_kwh(month_total_uj), up),
                                        Round2(get_avg_power_24h(samples_24h), up),
                                        Round2(current_watts, up))
                  solar == fetch_solar_this_month(get_monthly_generation(resp, clock))
              IN  IF solar.exc THEN Raise("fetch_solar_this_month") /\ UNCHANGED runs
                  ELSE /\ monthly_data' =
                            IF solar.some
                            THEN SetField(md, current_month, "solar_this_month",
                                          Round3(Rat(solar.y, 10000), up))
                            ELSE md
                       /\ disk' = SaveOpen(disk)
                       /\ pc' = "save_write"
                       /\ ret' = "rollover"
                       /\ current_watts' = Rat(0, 1)
                       /\ hist' = [hist EXCEPT !.sample = NoSample, !.fetch = resp.kind]
                       /\ UNCHANGED <<runs, clock, worker, current_month, new_month,
                                      acc, save_age>>
       ELSE /\ pc' = "rollover"
            /\ current_watts' = Rat(0, 1)
            /\ hist' = [hist EXCEPT !.sample = NoSample]
            /\ UNCHANGED <<ret, runs, clock, worker, disk, monthly_data, current_month,
                           new_month, acc, save_age>>

\* main(): the month rollover check, up to the save of the outgoing month
Rollover ==
    /\ pc = "rollover"
    /\ LET nm == month_key(clock)
       IN  IF nm # current_month
           THEN IF current_month \notin DOMAIN monthly_data
                THEN Raise("rollover") /\ UNCHANGED runs
                ELSE \E up \in BOOLEAN :
                       /\ monthly_data' = SetField(monthly_data, current_month, "pc_kwh_used",
                                                   Round4(get_month_kwh(month_total_uj), up))
                       /\ new_month' = nm
                       /\ disk' = SaveOpen(disk)
                       /\ pc' = "save_write"
                       /\ ret' = "reset"
                       /\ hist' = [hist EXCEPT !.finalized = @ \cup {current_month}]
                       /\ UNCHANGED <<runs, clock, worker, current_month, acc, save_age,
                                      current_watts>>
           ELSE /\ pc' = "sleep"
                /\ new_month' = nm
                /\ UNCHANGED <<ret, runs, clock, worker, disk, monthly_data, current_month,
                               acc, save_age, current_watts, hist>>

reset_month_Rebase ==
    /\ month_total_uj' = 0
    /\ samples_24h' = <<>>
    /\ last_energy_uj' = 0
    /\ read_age' = 0

\* accumulator.reset_month()
reset_month ==
    /\ month_total_uj' = 0
    /\ samples_24h' = <<>>
    /\ UNCHANGED <<last_energy_uj, read_age>>

\* main(): current_month = new_month; accumulator.reset_month()
Reset ==
    /\ pc = "reset"
    /\ current_month' = new_month
    /\ reset_month
    /\ hist' = [hist EXCEPT !.seed = 0, !.deltas = 0, !.resumed = 0 - 1]
    /\ pc' = "sleep"
    /\ UNCHANGED <<ret, runs, clock, worker, disk, monthly_data, new_month,
                   save_age, current_watts>>

Clamp(t) == IF t > SAVE_INTERVAL THEN SAVE_INTERVAL
            ELSE IF t < 0 - SAMPLE_INTERVAL THEN 0 - SAMPLE_INTERVAL ELSE t

\* main(): time.sleep until the next sample; the wall clock moves by dt
Sleep ==
    /\ pc = "sleep"
    /\ \E dt \in TimeSteps :
         /\ read_age' = Clamp(read_age + dt)
         /\ save_age' = Clamp(save_age + dt)
    /\ pc' = "sample"
    /\ UNCHANGED <<ret, runs, clock, worker, disk, monthly_data, current_month, new_month,
                   last_energy_uj, month_total_uj, samples_24h, current_watts, hist>>

\* the handler reads accumulator.month_total_uj, monthly_data and current_month only
HandlerDrops ==
    /\ new_month' = 0
    /\ last_energy_uj' = 0
    /\ read_age' = 0
    /\ save_age' = 0
    /\ samples_24h' = <<>>
    /\ current_watts' = Rat(0, 1)
    /\ hist' = [hist EXCEPT !.sample = NoSample, !.fetch = "none"]

\* KeyboardInterrupt inside the try block: the handler calls xmrig_process.terminate()
Interrupt ==
    /\ InTry
    /\ pc' = "wait"
    /\ ret' = "none"
    /\ worker' = IF worker = "running" THEN "terminating" ELSE worker
    /\ HandlerDrops
    /\ UNCHANGED <<runs, clock, disk, monthly_data, current_month, month_total_uj>>

\* xmrig_process.wait() returns once the child has exited
ShutdownWait ==
    /\ pc = "wait"
    /\ worker = "exited"
    /\ pc' = "flush"
    /\ UNCHANGED <<ret, runs, clock, worker, disk, monthly_data, current_month, new_month,
                   acc, save_age, current_watts, hist>>

\* the handler's final save
ShutdownFlush ==
    /\ pc = "flush"
    /\ IF current_month \notin DOMAIN monthly_data
       THEN Raise("shutdown") /\ UNCHANGED runs
       ELSE \E up \in BOOLEAN :
              /\ monthly_data' = SetField(monthly_data, current_month, "pc_kwh_used",
                                          Round4(get_month_kwh(month_total_uj), up))
              /\ disk' = SaveOpen(disk)
              /\ pc' = "save_write"
              /\ ret' = "done"
              /\ UNCHANGED <<runs, clock, worker, current_month, new_month, acc, save_age,
                             current_watts, hist>>

----------------------------------------------------------------------------
(* The environment *)

\* the calendar month of the wall clock moves on
ClockForward ==
    /\ clock < MaxClock
    /\ clock' = clock + 1
    /\ UNCHANGED <<pc, ret, runs, worker, disk, monthly_data, current_month, new_month,
                   acc, save_age, current_watts, hist>>

\* the child exits after terminate()
WorkerExit ==
    /\ worker = "terminating"
    /\ worker' = "exited"
    /\ UNCHANGED <<pc, ret, runs, clock, disk, monthly_data, current_month, new_month,
                   acc, save_age, current_watts, hist>>

\* the process is killed or the machine loses power
Kill ==
    /\ ~Stopped
    /\ pc' = "killed"
    /\ NoMemory
    /\ hist' = NoHist
    /\ UNCHANGED <<runs, clock, disk>>

Next ==
    \/ Startup
    \/ SaveWrite
    \/ Launch
    \/ Sample
    \/ SavePoint
    \/ Rollover
    \/ Reset
    \/ Sleep
    \/ Interrupt
    \/ ShutdownWait
    \/ ShutdownFlush
    \/ ClockForward
    \/ WorkerExit
    \/ Kill

Spec == Init /\ [][Next]_vars

\* datetime.now() is the wall clock, which the operator or a time service can set
\* back to an earlier month
ClockBack ==
    /\ clock > 0
    /\ clock' = clock - 1
    /\ UNCHANGED <<pc, ret, runs, worker, disk, monthly_data, current_month, new_month,
                   acc, save_age, current_watts, hist>>

NextClockBack ==
    \/ Next
    \/ ClockBack

SpecClockBack == Init /\ [][NextClockBack]_vars

----------------------------------------------------------------------------
(* Properties *)

Transient == {"current_watts", "current_avg_watts_24h", "solar_this_month"}

Production == {"solar", "solar_this_month"}

\* the values round(accumulator.get_month_kwh(), 4) can take for a month total
KwhChoices(total_uj) == {Round4(get_month_kwh(total_uj), up) : up \in BOOLEAN}

\* the production fields of a ledger, as (month, field, value) triples
ProductionOf(md) ==
    {<<k, f, md[k][f]>> : <<k, f>> \in
        {kf \in (DOMAIN md) \X Production : kf[2] \in DOMAIN md[kf[1]]}}

\* C1: a sampled energy delta is only ever added to the total of the calendar
\* month in which the sample was taken (the month check precedes the sample)
C1_SampleAddedToOwnMonth ==
    hist.sample.delta > 0 => hist.sample.added_to = hist.sample.taken_in

\* C2: when the rollover has saved the outgoing month, that month's record on
\* disk carries no transient field
C2_NoTransientAfterRollover ==
    pc = "reset" => (DOMAIN disk.data[current_month]) \cap Transient = {}

\* C3: whenever the rollover check sees the month key change, it writes the
\* accumulator's month total to the outgoing month and saves it, before the reset
C3_FinalizedOncePerChange ==
    [][(/\ pc = "rollover"
        /\ month_key(clock) # current_month
        /\ pc' \notin {"rollover", "wait", "killed"})
       => (/\ pc' = "save_write"
           /\ ret' = "reset"
           /\ month_total_uj' = month_total_uj
           /\ current_month \in DOMAIN monthly_data'
           /\ "pc_kwh_used" \in DOMAIN monthly_data'[current_month]
           /\ monthly_data'[current_month]["pc_kwh_used"] \in KwhChoices(month_total_uj))]_vars

\* C4: the ledger file is at every instant a complete document, also in the
\* middle of a save
C4_SaveIsAtomic == disk.state # "truncated"

\* C5: after an operator interrupt the handler saves the ledger, and the saved
\* pc_kwh_used of the current month is the rounded month total of the accumulator
C5_InterruptFlushesTotal ==
    [][/\ (pc = "flush" /\ pc' \notin {"flush", "killed"})
            => (pc' = "save_write" /\ ret' = "done")
       /\ pc' = "done"
            => (/\ disk'.state = "complete"
                /\ current_month' \in DOMAIN disk'.data
                /\ "pc_kwh_used" \in DOMAIN disk'.data[current_month']
                /\ disk'.data[current_month']["pc_kwh_used"]
                       \in KwhChoices(month_total_uj'))]_vars

\* C6: the wait for the worker is bounded: the handler can always go on to the
\* final flush by itself, whether or not the worker has exited
C6_BoundedWait == pc = "wait" => ENABLED ShutdownWait

\* C7: the month total seeded from a persisted pc_kwh_used rounds back to that
\* same value
C7_ResumeRoundTrip ==
    hist.resumed # 0 - 1 =>
        \A up \in BOOLEAN : Round4(get_month_kwh(hist.seed), up) = hist.resumed

C7_Witness ==
    /\ pc = "sample"
    /\ hist.resumed > 0
    /\ hist.seed * 10000 < hist.resumed * UJ_PER_KWH
    /\ month_total_uj = hist.seed

\* C8: month_total_uj is the seed plus the sum of the sampled deltas, a sample
\* with elapsed time <= 0 reports 0 watts and still adds its delta, and the
\* total only decreases in reset_month()
C8_TotalIsSeedPlusDeltas ==
    [][/\ ~Stopped' => month_total_uj' = hist'.seed + hist'.deltas
       /\ hist'.sample.elapsed <= 0 => current_watts' = Rat(0, 1)
       /\ (~Stopped /\ ~Stopped' /\ month_total_uj' < month_total_uj) => pc = "reset"]_vars

C8_Witness ==
    /\ pc = "savecheck"
    /\ hist.sample.elapsed < 0
    /\ hist.sample.delta > 0
    /\ hist.seed > 0
    /\ hist.deltas > hist.sample.delta

\* C9: the delta of a sample is in [0, MAX) and, with less than one full wrap
\* between the two readings, it is the amount the counter advanced by
C9_DeltaIsAdvance ==
    /\ hist.sample.delta \in 0..(RAPL_MAX_UJ - 1)
    /\ hist.sample.advance < RAPL_MAX_UJ => hist.sample.delta = hist.sample.advance

C9_Witness ==
    /\ pc = "savecheck"
    /\ hist.sample.current < hist.sample.last
    /\ hist.sample.advance \in 1..(RAPL_MAX_UJ - 1)
    /\ hist.sample.delta = hist.sample.advance

\* C10: a save point whose fetch fails still completes: it does not raise, it
\* writes pc_kwh_used and starts the save, and it leaves every production field
C10_FetchFailureIsNoValue ==
    [][(/\ pc = "savecheck"
        /\ save_age >= SAVE_INTERVAL
        /\ pc' \notin {"savecheck", "wait", "killed"}
        /\ (pc' = "crashed" \/ hist'.fetch \in ResponseKinds))
       => (/\ pc' = "save_write"
           /\ monthly_data'[current_month]["pc_kwh_used"] \in KwhChoices(month_total_uj)
           /\ ProductionOf(monthly_data') = ProductionOf(monthly_data))]_vars

\* C11: when startup is over and the first tick begins, no record of a month
\* before the current month carries a transient field
C11_StartupReconciles ==
    [][(pc = "launch" /\ pc' = "sample")
       => \A k \in DOMAIN monthly_data' :
            k < current_month' => (DOMAIN monthly_data'[k]) \cap Transient = {}]_vars

\* C12: a tick either takes its sample or, when the counter cannot be read, is
\* skipped with the accumulator unchanged and the loop going on
C12_FailedReadSkipsTick ==
    [][(pc = "sample" /\ pc' \notin {"sample", "wait", "killed"})
       => \/ pc' = "savecheck"
          \/ (pc' = "sleep" /\ acc' = acc)]_vars

\* C13: a start on an unparsable ledger file ends with an error and leaves the
\* file as it is, and an absent file is loaded as the empty mapping
C13_MalformedFileIsKept ==
    [][/\ (Stopped /\ disk.state = "truncated" /\ runs' # runs)
            => (pc' = "crashed" /\ disk' = disk)
       /\ (pc = "launch" /\ disk.state = "absent" /\ pc' = "sample")
            => monthly_data' = EmptyDict]_vars

C13_Witness ==
    /\ pc = "crashed"
    /\ hist.exc = "load_monthly_data"
    /\ disk.state = "truncated"

\* C14: the 24 h average is the energy in the sample window divided by the
\* elapsed time of the samples in it (stated on the window that holds exactly
\* the sample just taken, whose elapsed time the state still has), and is 0
\* for the empty window
C14_AvgOverElapsedTime ==
    /\ samples_24h = <<>> => get_avg_power_24h(samples_24h) = Rat(0, 1)
    /\ (pc = "savecheck" /\ Len(samples_24h) = 1 /\ hist.sample.elapsed > 0)
         => LET avg == get_avg_power_24h(samples_24h)
            IN  avg.num * hist.sample.elapsed = hist.sample.delta * avg.den

\* C15: the startup backfill leaves every record that was in the ledger before
\* it as it was, and writes nothing for the current month, the last entry of
\* the remote series
C15_BackfillKeepsRecords ==
    [][(Stopped /\ pc' \in {"launch", "save_write"})
       => LET before == load_monthly_data(disk)
          IN  /\ \A k \in DOMAIN before :
                    k \in DOMAIN monthly_data' /\ monthly_data'[k] = before[k]
              /\ month_key(clock) \notin DOMAIN before
                    => month_key(clock) \notin DOMAIN monthly_data']_vars

\* C16: once this run has finalized a month at a rollover, no later step of the
\* run changes that month's pc_kwh_used
C16_FinalizedIsImmutable ==
    [][\A k \in hist.finalized :
          (~Stopped' /\ k \in DOMAIN monthly_data)
            => /\ k \in DOMAIN monthly_data'
               /\ monthly_data'[k]["pc_kwh_used"] = monthly_data[k]["pc_kwh_used"]]_vars

\* C17: the rollover finalization and the shutdown flush create the record of
\* the current month when it is missing, so neither ever ends in an error
C17_RecordsCreatedLazily ==
    /\ hist.exc \notin {"rollover", "shutdown"}
    /\ (pc = "save_write" /\ ret \in {"reset", "done"})
         => (current_month \in DOMAIN monthly_data
             /\ "pc_kwh_used" \in DOMAIN monthly_data[current_month])

\* the transient fields of month k's record, as (field, value) pairs
TransientPart(md, k) ==
    IF k \in DOMAIN md
    THEN {<<f, md[k][f]>> : f \in (DOMAIN md[k]) \cap Transient}
    ELSE {}

\* C18: a save point that falls in a calendar month other than current_month
\* (the first tick after a month boundary) stores neither the fetched production
\* figure nor the new readings on the outgoing month's record
C18_FetchGoesToItsOwnMonth ==
    [][(pc = "savecheck" /\ pc' = "save_write" /\ month_key(clock) # current_month)
       => TransientPart(monthly_data', current_month)
              = TransientPart(monthly_data, current_month)]_vars

\* the last n elements of s
LastN(s, n) == IF Len(s) <= n THEN s ELSE SubSeq(s, Len(s) - n + 1, Len(s))

\* C19: the sample window never holds more than its capacity; a sample leaves
\* it holding the most recent deltas in order, the oldest evicted first;
\* reset_month() empties it and nothing else changes it
C19_WindowIsBounded ==
    [][/\ Len(samples_24h') <= WindowCap
       /\ (pc = "sample" /\ pc' = "savecheck")
            => samples_24h' = LastN(Append(samples_24h, hist'.sample.delta), WindowCap)
       /\ (pc = "reset" /\ pc' = "sleep") => samples_24h' = <<>>
       /\ (~Stopped /\ ~Stopped' /\ pc \notin {"sample", "reset"} /\ pc' # "wait")
            => samples_24h' = samples_24h]_vars

C19_Witness ==
    /\ pc = "savecheck"
    /\ Len(samples_24h) = WindowCap
    /\ hist.sample.delta > 0
    /\ hist.deltas > SumSeq(samples_24h)

\* C20: reset_month() zeroes the month total and empties the window and leaves
\* the last reading and its time alone, and a sample adds the delta against the
\* last reading held, so the first sample after a rollover counts from the last
\* reading before it
C20_ResetKeepsReading ==
    [][/\ (pc = "reset" /\ pc' = "sleep")
            => /\ month_total_uj' = 0
               /\ samples_24h' = <<>>
               /\ last_energy_uj' = last_energy_uj
               /\ read_age' = read_age
       /\ (pc = "sample" /\ pc' = "savecheck")
            => /\ month_total_uj'
                    = month_total_uj + ((last_energy_uj' - last_energy_uj) % RAPL_MAX_UJ)
               /\ hist'.sample.last = last_energy_uj]_vars

C20_Witness ==
    /\ pc = "savecheck"
    /\ hist.finalized # {}
    /\ hist.seed = 0
    /\ hist.sample.delta > 0
    /\ month_total_uj = hist.sample.delta
    /\ hist.sample.last = RAPL_MAX_UJ - 1
    /\ hist.sample.current < hist.sample.last

====
